---- MODULE Spec2Model ----
(***************************************************************************)
(* SeaShell (src/Seashell.c): the read loop of main, the operator scan of  *)
(* execCmd, the two redirection helpers and the process orchestration of   *)
(* execCmd and pipeCommands, together with the operating-system objects    *)
(* they act on: per-process descriptor tables, pipes, child processes.     *)
(***************************************************************************)
EXTENDS Integers, Sequences, FiniteSets, TLC

\* ------------------------------------------------------------- bounds
\* Longest operator-bearing tail of an input line, in words.
MaxTail == 3
\* Plain words put in front of a tail so that the line reaches the token limit.
PadLen == 8
\* Longest tail of a line of the fairly scheduled runs, in items.
MaxFairTail == 2
\* Lines read in one session.
MaxLines == 2
\* Size of a process's descriptor table (RLIMIT_NOFILE).
FdLimit == 10
\* Children the interpreter may create in one run (RLIMIT_NPROC).
MaxKids == 4
\* Longest line of spaces and tabs only.
MaxBlank == 2
\* Characters by which a long line differs from what the line buffer holds.
MaxOver == 2

\* -------------------------------------------------- program constants
\* while (token != NULL && i < 10)
MaxTokens == 10
\* char* args[15]
ArgsSize == 15
\* for (int i = 0; i < 10; i++)
ScanLimit == 10
STDIN_FILENO == 0
STDOUT_FILENO == 1
\* char command[100]
BufSize == 100

\* The null pointer, and the content of an array slot never assigned.
NULL == "<NULL>"
UNINIT == "<uninit>"

Operators == {"&", ">", ">>", "<", "|"}
Word == "w"
Alphabet == Operators \cup {Word}

\* Characters: the space strtok splits on, the tab, the end of a line.
SP == " "
TAB == "\t"
NL == "\n"

Min(S) == CHOOSE x \in S : \A y \in S : x <= y

\* ------------------------------------------------------------- inputs
\* What a line is put together from: a word, an operator, or an operator with
\* the word it takes.
Items ==
    {<<x>> : x \in Alphabet} \cup {<<o, Word>> : o \in Operators \ {"&"}}

RECURSIVE Concats(_, _)
Concats(S, n) ==
    IF n = 0 THEN {<<>>}
    ELSE LET shorter == Concats(S, n - 1)
         IN  shorter \cup {s \o x : s \in shorter, x \in S}

Pad(k) == [i \in 1..k |-> Word]

\* The words of one input line: up to MaxTail items, alone or after a command
\* word; those of at most MaxTail words also after PadLen words, which takes
\* the line to the token limit and beyond; and the built-in lines.
Tails == Concats(Items, MaxTail)
ShortTails == {t \in Tails : Len(t) <= MaxTail}
BuiltinLines == {<<"exit">>, <<"cd">>, <<"cd", Word>>, <<"cd", "~">>}
AllLines ==
    {h \o t : h \in {<<>>, <<Word>>}, t \in Tails}
    \cup {Pad(PadLen) \o t : t \in ShortTails}
    \cup BuiltinLines

\* The lines of the fairly scheduled runs: a command word and up to
\* MaxFairTail items.
FairLines == {<<Word>> \o t : t \in Concats(Items, MaxFairTail)}

\* The four orchestration shapes: single command and pipeline, each in the
\* foreground and in the background.
SessionLines ==
    { <<Word>>, <<Word, "&">>, <<Word, "|", Word>>, <<Word, "|", Word, "&">> }

\* The characters of a word.
Spell(x) ==
    CASE x = ">>"   -> <<">", ">">>
      [] x = "cd"   -> <<"c", "d">>
      [] x = "exit" -> <<"e", "x", "i", "t">>
      [] OTHER      -> <<x>>

\* The words of a line, one space between two of them.
RECURSIVE Chars(_)
Chars(words) ==
    IF words = <<>> THEN <<>>
    ELSE IF Len(words) = 1 THEN Spell(words[1])
    ELSE Spell(Head(words)) \o <<SP>> \o Chars(Tail(words))

\* What the user types for a line of words: its characters and the newline.
Typed(words) == Chars(words) \o <<NL>>
TypedLines(W) == {Typed(words) : words \in W}

\* Lines of spaces and tabs only, the empty line among them.
BlankLines == {b \o <<NL>> : b \in Concats({<<SP>>, <<TAB>>}, MaxBlank)}

\* Lines longer than the line buffer: a command word, spaces up to the end of
\* the buffer or MaxOver short of it or beyond it, then one of the four shapes;
\* and one long word.
Spaces(n) == [i \in 1..n |-> SP]
LongLines ==
    {<<Word>> \o Spaces(n) \o Typed(t) :
        n \in (BufSize - 2 - MaxOver)..(BufSize - 2 + MaxOver), t \in SessionLines}
    \cup {[i \in 1..(BufSize - 1 + d) |-> Word] \o <<NL>> : d \in 0..MaxOver}

\* The lines typed character by character.
RawLines == TypedLines(SessionLines) \cup BlankLines \cup LongLines

\* ------------------------------------------------------ the line buffer
\* fgets(command, sizeof(command), stdin), line 47: the characters up to and
\* including the first newline, BufSize - 1 of them at most; the others stay
\* in the stream.
Fgets(s) ==
    LET n == Min({i \in 1..Len(s) : s[i] = NL} \cup {BufSize - 1, Len(s)})
    IN  [buf |-> SubSeq(s, 1, n), rest |-> SubSeq(s, n + 1, Len(s))]

\* command[strcspn(command, "\n")] = 0, line 51
Chomp(buf) ==
    LET nl == {i \in 1..Len(buf) : buf[i] = NL}
    IN  IF nl = {} THEN buf ELSE SubSeq(buf, 1, Min(nl) - 1)

\* The string the characters cs spell.
RECURSIVE Str(_)
Str(cs) ==
    IF cs = <<>> THEN ""
    ELSE IF Len(cs) = 1 THEN cs[1]
    ELSE LET h == Len(cs) \div 2
         IN  Str(SubSeq(cs, 1, h)) \o Str(SubSeq(cs, h + 1, Len(cs)))

\* strtok(command, " ") and strtok(NULL, " "), lines 54 and 58, called until
\* it returns NULL: from position i on, skip the spaces, take the characters
\* up to the next space or the end as one token, go on after that space.
RECURSIVE Strtok(_, _)
Strtok(cs, i) ==
    LET starts == {j \in i..Len(cs) : cs[j] # SP}
    IN  IF starts = {} THEN <<>>
        ELSE LET b == Min(starts)
                 ends == {j \in b..Len(cs) : cs[j] = SP}
                 e == IF ends = {} THEN Len(cs) + 1 ELSE Min(ends)
             IN  <<Str(SubSeq(cs, b, e - 1))>> \o Strtok(cs, e + 1)

\* The buffer as a C string once the loop of lines 54-59 has run: the first
\* strtok wrote a NUL over the space that ends the first token, so that the
\* string stops there; a buffer without a token, or without a space after its
\* first token, is left as it was.
AfterStrtok(cs) ==
    LET starts == {j \in 1..Len(cs) : cs[j] # SP}
    IN  IF starts = {} THEN cs
        ELSE LET b == Min(starts)
                 ends == {j \in b..Len(cs) : cs[j] = SP}
             IN  IF ends = {} THEN cs ELSE SubSeq(cs, 1, Min(ends) - 1)

\* ---------------------------------------------------------- tokenizer
\* main, lines 54-60: at most MaxTokens tokens, then the terminating NULL;
\* the slots after it are not written.
RECURSIVE TokenLoop(_, _, _)
TokenLoop(a, words, i) ==
    IF i < Len(words) /\ i < MaxTokens
    THEN TokenLoop([a EXCEPT ![i] = words[i + 1]], words, i + 1)
    ELSE [a EXCEPT ![i] = NULL]

Tokenize(words) == TokenLoop([i \in 0..(ArgsSize - 1) |-> UNINIT], words, 0)

\* The tokens the tokenizer yielded, as a sequence.
RECURSIVE TokensOf(_, _)
TokensOf(a, i) ==
    IF i >= ArgsSize \/ a[i] = NULL \/ a[i] = UNINIT THEN <<>>
    ELSE <<a[i]>> \o TokensOf(a, i + 1)

\* ------------------------------------------------- descriptor tables
Fds == 0..(FdLimit - 1)
Closed == [kind |-> "closed", id |-> 0, mode |-> "", path |-> ""]
Tty == [kind |-> "tty", id |-> 0, mode |-> "rw", path |-> ""]
PipeEnd(p, m) == [kind |-> "pipe", id |-> p, mode |-> m, path |-> ""]
File(idx, m, name) == [kind |-> "file", id |-> idx, mode |-> m, path |-> name]

InitFds == [f \in Fds |-> IF f <= 2 THEN Tty ELSE Closed]
NoFds == [f \in Fds |-> Closed]
OpenFds(t) == {f \in Fds : t[f].kind # "closed"}
FreeFds(t) == Fds \ OpenFds(t)

\* close(fd)
SysClose(t, fd) == IF fd \in Fds THEN [t EXCEPT ![fd] = Closed] ELSE t
\* dup2(old, new)
SysDup2(t, old, new) ==
    IF old \in Fds /\ new \in Fds /\ t[old].kind # "closed"
    THEN [t EXCEPT ![new] = t[old]] ELSE t
\* pipe(pipe_fd): the two lowest free descriptors, read end first; fails
\* (EMFILE) when fewer than two are free.
SysPipe(t, p) ==
    IF Cardinality(FreeFds(t)) < 2
    THEN [ok |-> FALSE, fds |-> t, r |-> -1, w |-> -1]
    ELSE LET r == Min(FreeFds(t))
             w == Min(FreeFds(t) \ {r})
         IN  [ok |-> TRUE,
              fds |-> [t EXCEPT ![r] = PipeEnd(p, "r"), ![w] = PipeEnd(p, "w")],
              r |-> r, w |-> w]
\* open(path, flags): the lowest free descriptor, or -1.
SysOpen(t, desc, ok) ==
    IF ok /\ FreeFds(t) # {}
    THEN LET fd == Min(FreeFds(t)) IN [fd |-> fd, fds |-> [t EXCEPT ![fd] = desc]]
    ELSE [fd |-> -1, fds |-> t]

\* -------------------------------------------------- operator scan
\* The locals of execCmd, lines 122-130.
InitLocals ==
    [background |-> 0, append |-> 0, output_redirection |-> 0,
     input_redirection |-> 0, input_file_pos |-> 0, output_file_pos |-> 0,
     is_pipe |-> 0, piped_cmd_pos |-> 0]

\* The state the scan works on: the token array, the locals, and the parent's
\* descriptor table and pipe count, which the pipe() of line 163 changes.
ScanStart(a, t, np) == [parsed |-> a, loc |-> InitLocals, fds |-> t, npipes |-> np]

\* lines 136-140
OnAmp_KeepsToken(s, i) == [s EXCEPT !.loc.background = 1]
OnAmp(s, i) == [s EXCEPT !.parsed[i] = NULL, !.loc.background = 1]

\* lines 141-146
OnGt(s, i) ==
    [s EXCEPT !.parsed[i] = NULL, !.loc.output_redirection = 1,
              !.loc.output_file_pos = i]

\* lines 147-152
OnGtGt(s, i) ==
    [s EXCEPT !.parsed[i] = NULL, !.loc.append = 1, !.loc.output_file_pos = i]

\* lines 153-158
OnLt(s, i) ==
    [s EXCEPT !.parsed[i] = NULL, !.loc.input_redirection = 1,
              !.loc.input_file_pos = i]

\* lines 159-165: the pipe created here is never used nor closed.
OnPipe(s, i) ==
    LET p == SysPipe(s.fds, s.npipes + 1)
    IN  [s EXCEPT !.parsed[i] = NULL, !.loc.is_pipe = 1,
                  !.loc.piped_cmd_pos = i + 1,
                  !.fds = p.fds,
                  !.npipes = IF p.ok THEN s.npipes + 1 ELSE s.npipes]

\* One iteration of the loop of lines 133-166.
ScanStep(s, i) ==
    CASE s.parsed[i] = "&"  -> OnAmp(s, i)
      [] s.parsed[i] = ">"  -> OnGt(s, i)
      [] s.parsed[i] = ">>" -> OnGtGt(s, i)
      [] s.parsed[i] = "<"  -> OnLt(s, i)
      [] s.parsed[i] = "|"  -> OnPipe(s, i)
      [] OTHER              -> s

\* The loop of lines 133-166. (Binding the state after each iteration to t
\* has it computed once.)
RECURSIVE ScanLoop(_, _)
ScanLoop(s, i) ==
    IF i >= ScanLimit \/ s.parsed[i] = NULL THEN s
    ELSE CHOOSE r \in {ScanLoop(t, i + 1) : t \in {ScanStep(s, i)}} : TRUE

\* The argv execvp reads: the slots from start up to the first NULL, as indices
\* into the token array.
RECURSIVE ArgvFrom(_, _)
ArgvFrom(p, start) ==
    IF start >= ArgsSize \/ p[start] = NULL THEN <<>>
    ELSE <<start>> \o ArgvFrom(p, start + 1)

\* ------------------------------------------------------------ state
VARIABLES
    pc,       \* where the interpreter is: "prompt" is the fgets of line 47
    nlines,   \* lines read so far
    line,     \* the words of the line read last
    command,  \* main's line buffer as a C string, after the strtok loop
    stdin,    \* the characters typed and not yet read
    toks,     \* the tokens the tokenizer yielded for it
    args,     \* main's token array, which execCmd scans in place as parsed
    loc,      \* execCmd's locals
    fds,      \* the interpreter's descriptor table
    fds0,     \* the descriptors the interpreter had open when it read the line
    npipes,   \* pipes created so far, which numbers them
    pipe_fd,  \* pipeCommands' pipe_fd[0], pipe_fd[1]
    pid,      \* execCmd's pid
    pid1,     \* pipeCommands' pid1
    pid2,     \* pipeCommands' pid2
    kids,     \* the child processes, by process id
    nkids     \* children created so far

vars == <<pc, nlines, line, toks, command, stdin, args, loc, fds, fds0, npipes, pipe_fd, pid, pid1,
          pid2, kids, nkids>>

Pids == 1..MaxKids

\* A child: where it is (st), what it was forked as (role), for which line, its
\* own descriptor table and its copy of the parent's memory at the fork; then
\* the argv it handed to execvp and how it ended. pipe numbers the pipe that
\* pipeCommands created for it. Of a child that a redirection helper ended,
\* failed is the slot of the path that did not open and last the descriptor
\* table it had then.
NoKid ==
    [st |-> "none", role |-> "none", line |-> 0, pipe |-> 0, fds |-> NoFds,
     parsed |-> [i \in 0..(ArgsSize - 1) |-> UNINIT], loc |-> InitLocals,
     pipe_fd |-> <<-1, -1>>, execd |-> FALSE, argv |-> <<>>, exit |-> "none",
     failed |-> -1, last |-> NoFds]

\* fork(): the child starts with a copy of the parent's table and memory.
NewKid(role, first, p) ==
    [NoKid EXCEPT !.st = first, !.role = role, !.line = nlines, !.pipe = p,
                  !.fds = fds, !.parsed = args, !.loc = loc,
                  !.pipe_fd = pipe_fd]

\* A terminated process holds no descriptor and no memory.
Ended(k, how) ==
    [NoKid EXCEPT !.st = "zombie", !.role = k.role, !.line = k.line,
                  !.pipe = k.pipe, !.execd = k.execd, !.argv = k.argv,
                  !.exit = how]

Reaped(k) == [k EXCEPT !.st = "reaped"]

Live(k) == kids[k].st \in {"setup", "redir", "exec", "run"}

Init ==
    /\ pc = "prompt"
    /\ nlines = 0
    /\ line = <<>>
    /\ toks = <<>>
    /\ command = <<>>
    /\ stdin = <<>>
    /\ args = [i \in 0..(ArgsSize - 1) |-> UNINIT]
    /\ loc = InitLocals
    /\ fds = InitFds
    /\ fds0 = OpenFds(InitFds)
    /\ npipes = 0
    /\ pipe_fd = <<-1, -1>>
    /\ pid = 0
    /\ pid1 = 0
    /\ pid2 = 0
    /\ kids = [k \in Pids |-> NoKid]
    /\ nkids = 0

\* ------------------------------------------------------ the read loop
\* main, lines 47-87: read one line, tokenize it, run a built-in or call
\* execCmd. chdir to the home directory may fail, which ends the shell. The
\* line is what is left in the stream or, with the stream empty and fewer than
\* max lines read, a line of L that the user types.
Dispatch(a, cdOK) ==
    CASE a[0] = NULL   -> "prompt"
      [] a[0] = "exit" -> "exited"
      [] a[0] = "cd"   -> IF a[1] # NULL /\ a[1] = "~" /\ ~cdOK
                          THEN "exited" ELSE "prompt"
      [] OTHER         -> "execCmd"

ReadLine(L, max) ==
    /\ pc = "prompt"
    /\ \E s \in IF stdin # <<>> THEN {stdin} ELSE IF nlines < max THEN L ELSE {} :
         \E g \in {Fgets(s)} :
           \E words \in {Strtok(Chomp(g.buf), 1)} :
             \E a \in {Tokenize(words)} :
               \E cdOK \in IF a[0] = "cd" /\ a[1] = "~" THEN BOOLEAN ELSE {TRUE} :
                  /\ command' = AfterStrtok(Chomp(g.buf))
                  /\ stdin' = g.rest
                  /\ line' = words
                  /\ args' = a
                  /\ toks' = TokensOf(a, 0)
                  /\ pc' = Dispatch(a, cdOK)
    /\ nlines' = nlines + 1
    /\ fds0' = OpenFds(fds)
    /\ UNCHANGED <<loc, fds, npipes, pipe_fd, pid, pid1, pid2, kids, nkids>>

\* fgets returns NULL at the end of the input: break, return 0.
EndOfInput ==
    /\ pc = "prompt"
    /\ stdin = <<>>
    /\ pc' = "done"
    /\ UNCHANGED <<nlines, line, toks, command, stdin, args, loc, fds, fds0, npipes, pipe_fd, pid,
                   pid1, pid2, kids, nkids>>

\* ------------------------------------------------------------ execCmd
\* lines 122-172: the scan, then the choice of the shape.
execCmd_scan ==
    /\ pc = "execCmd"
    /\ \E s \in {ScanLoop(ScanStart(args, fds, npipes), 0)} :
           /\ args' = s.parsed
           /\ loc' = s.loc
           /\ fds' = s.fds
           /\ npipes' = s.npipes
           /\ pc' = IF s.loc.is_pipe = 1 THEN "pipe" ELSE "fork"
    /\ UNCHANGED <<nlines, line, toks, command, stdin, fds0, pipe_fd, pid, pid1, pid2, kids, nkids>>

\* Where the parent goes after the fork of line 176, lines 195-201.
AfterFork(background) == IF background = 1 THEN "nohang" ELSE "wait"

\* line 176, fork succeeds
execCmd_fork ==
    /\ pc = "fork"
    /\ nkids < MaxKids
    /\ nkids' = nkids + 1
    /\ pid' = nkids + 1
    /\ kids' = [kids EXCEPT ![nkids + 1] = NewKid("single", "redir", 0)]
    /\ pc' = AfterFork(loc.background)
    /\ UNCHANGED <<nlines, line, toks, command, stdin, args, loc, fds, fds0, npipes, pipe_fd, pid1, pid2>>

\* lines 178-181, fork fails
execCmd_forkFail ==
    /\ pc = "fork"
    /\ pid' = -1
    /\ pc' = "prompt"
    /\ UNCHANGED <<nlines, line, toks, command, stdin, args, loc, fds, fds0, npipes, pipe_fd, pid1,
                   pid2, kids, nkids>>

\* waitpid(p, NULL, WNOHANG): reaps p if it has terminated, never blocks.
WaitNoHang(ks, p) ==
    IF ks[p].st = "zombie" THEN [ks EXCEPT ![p] = Reaped(ks[p])] ELSE ks

\* lines 196-199
execCmd_background ==
    /\ pc = "nohang"
    /\ kids' = WaitNoHang(kids, pid)
    /\ pc' = "prompt"
    /\ UNCHANGED <<nlines, line, toks, command, stdin, args, loc, fds, fds0, npipes, pipe_fd, pid,
                   pid1, pid2, nkids>>

\* The children a blocking wait in the parent may reap now: wait(NULL) takes
\* any terminated child.
WaitAnyTargets(ks, p) == {k \in Pids : ks[k].st = "zombie"}
\* waitpid(p, NULL, 0) takes p only.
WaitPidTargets_AnyChild(ks, p) == {k \in Pids : ks[k].st = "zombie"}
WaitPidTargets_NoChild(ks, p) == {}
WaitPidTargets(ks, p) == {k \in {p} : ks[k].st = "zombie"}

\* line 200: wait(NULL)
execCmd_wait ==
    /\ pc = "wait"
    /\ \E k \in WaitAnyTargets(kids, pid) :
          kids' = [kids EXCEPT ![k] = Reaped(kids[k])]
    /\ pc' = "prompt"
    /\ UNCHANGED <<nlines, line, toks, command, stdin, args, loc, fds, fds0, npipes, pipe_fd, pid,
                   pid1, pid2, nkids>>

\* ------------------------------------------------------- pipeCommands
\* line 263, pipe succeeds
pipeCommands_pipe ==
    /\ pc = "pipe"
    /\ LET p == SysPipe(fds, npipes + 1)
       IN  /\ p.ok
           /\ fds' = p.fds
           /\ pipe_fd' = <<p.r, p.w>>
    /\ npipes' = npipes + 1
    /\ pc' = "fork1"
    /\ UNCHANGED <<nlines, line, toks, command, stdin, args, loc, fds0, pid, pid1, pid2, kids, nkids>>

\* lines 263-266, pipe fails
pipeCommands_pipeFail ==
    /\ pc = "pipe"
    /\ pc' = "prompt"
    /\ UNCHANGED <<nlines, line, toks, command, stdin, args, loc, fds, fds0, npipes, pipe_fd, pid,
                   pid1, pid2, kids, nkids>>

\* line 268, fork succeeds
pipeCommands_fork1 ==
    /\ pc = "fork1"
    /\ nkids < MaxKids
    /\ nkids' = nkids + 1
    /\ pid1' = nkids + 1
    /\ kids' = [kids EXCEPT ![nkids + 1] = NewKid("stage1", "setup", npipes)]
    /\ pc' = "fork2"
    /\ UNCHANGED <<nlines, line, toks, command, stdin, args, loc, fds, fds0, npipes, pipe_fd, pid, pid2>>

\* lines 270-273, fork fails
pipeCommands_fork1Fail ==
    /\ pc = "fork1"
    /\ pid1' = -1
    /\ pc' = "prompt"
    /\ UNCHANGED <<nlines, line, toks, command, stdin, args, loc, fds, fds0, npipes, pipe_fd, pid,
                   pid2, kids, nkids>>

\* line 293, fork succeeds
pipeCommands_fork2 ==
    /\ pc = "fork2"
    /\ nkids < MaxKids
    /\ nkids' = nkids + 1
    /\ pid2' = nkids + 1
    /\ kids' = [kids EXCEPT ![nkids + 1] = NewKid("stage2", "setup", npipes)]
    /\ pc' = "close"
    /\ UNCHANGED <<nlines, line, toks, command, stdin, args, loc, fds, fds0, npipes, pipe_fd, pid, pid1>>

\* lines 295-298, fork fails
pipeCommands_fork2Fail ==
    /\ pc = "fork2"
    /\ pid2' = -1
    /\ pc' = "prompt"
    /\ UNCHANGED <<nlines, line, toks, command, stdin, args, loc, fds, fds0, npipes, pipe_fd, pid,
                   pid1, kids, nkids>>

\* lines 318-319
ParentCloses(t, pfd) == SysClose(SysClose(t, pfd[1]), pfd[2])

\* Where the parent goes after the closes, lines 321-325.
AfterCloses_AlwaysWaits(background) == "wait1"
AfterCloses(background) == IF background = 1 THEN "prompt" ELSE "wait1"

\* lines 318-323
pipeCommands_close ==
    /\ pc = "close"
    /\ fds' = ParentCloses(fds, pipe_fd)
    /\ pc' = AfterCloses(loc.background)
    /\ UNCHANGED <<nlines, line, toks, command, stdin, args, loc, fds0, npipes, pipe_fd, pid, pid1,
                   pid2, kids, nkids>>

\* line 325: waitpid(pid1, NULL, 0)
pipeCommands_wait1 ==
    /\ pc = "wait1"
    /\ \E k \in WaitPidTargets(kids, pid1) :
          kids' = [kids EXCEPT ![k] = Reaped(kids[k])]
    /\ pc' = "wait2"
    /\ UNCHANGED <<nlines, line, toks, command, stdin, args, loc, fds, fds0, npipes, pipe_fd, pid,
                   pid1, pid2, nkids>>

\* line 326: waitpid(pid2, NULL, 0)
pipeCommands_wait2 ==
    /\ pc = "wait2"
    /\ \E k \in WaitPidTargets(kids, pid2) :
          kids' = [kids EXCEPT ![k] = Reaped(kids[k])]
    /\ pc' = "prompt"
    /\ UNCHANGED <<nlines, line, toks, command, stdin, args, loc, fds, fds0, npipes, pipe_fd, pid,
                   pid1, pid2, nkids>>

\* ------------------------------------------------ redirection helpers
\* lines 231-236: the open flags chosen by append
OpenMode_AlwaysTruncates(append) == "trunc"
OpenMode(append) == IF append # 0 THEN "append" ELSE "trunc"

\* A path open() can follow; a null pointer makes it fail (EFAULT).
IsPath(x) == x # NULL /\ x # UNINIT

\* The slot the helpers take the path from, lines 213, 232 and 235.
PathSlot_TwoAhead(pos) == pos + 2
PathSlot(pos) == pos + 1

\* outputRedirection, lines 229-243; failed is its exit(1).
outputRedirection(t, cmd, output_file_pos, append, ok) ==
    LET slot == PathSlot(output_file_pos)
        o == SysOpen(t, File(slot, OpenMode(append), cmd[slot]),
                     ok /\ IsPath(cmd[slot]))
    IN  IF o.fd < 0 THEN [failed |-> TRUE, fds |-> t]
        ELSE [failed |-> FALSE,
              fds |-> SysClose(SysDup2(o.fds, o.fd, STDOUT_FILENO), o.fd)]

\* inputRedirection, lines 212-220
inputRedirection(t, cmd, input_file_pos, ok) ==
    LET slot == PathSlot(input_file_pos)
        o == SysOpen(t, File(slot, "rd", cmd[slot]), ok /\ IsPath(cmd[slot]))
    IN  IF o.fd < 0 THEN [failed |-> TRUE, fds |-> t]
        ELSE [failed |-> FALSE,
              fds |-> SysClose(SysDup2(o.fds, o.fd, STDIN_FILENO), o.fd)]

\* ---------------------------------------------------------- children
\* lines 277-279: the first child binds its standard output to the write end
Stage1Pipe(t, pfd) ==
    SysClose(SysDup2(SysClose(t, pfd[1]), pfd[2], STDOUT_FILENO), pfd[2])

\* lines 302-304: the second child binds its standard input to the read end
Stage2Pipe_KeepsWriteEnd(t, pfd) ==
    SysClose(SysDup2(t, pfd[1], STDIN_FILENO), pfd[1])
Stage2Pipe(t, pfd) ==
    SysClose(SysDup2(SysClose(t, pfd[2]), pfd[1], STDIN_FILENO), pfd[1])

ChildSetup(k) ==
    /\ kids[k].st = "setup"
    /\ kids' = [kids EXCEPT ![k].st = "redir",
                  ![k].fds = IF kids[k].role = "stage1"
                             THEN Stage1Pipe(kids[k].fds, kids[k].pipe_fd)
                             ELSE Stage2Pipe(kids[k].fds, kids[k].pipe_fd)]
    /\ UNCHANGED <<pc, nlines, line, toks, command, stdin, args, loc, fds, fds0, npipes, pipe_fd, pid,
                   pid1, pid2, nkids>>

\* Which helper each child calls: lines 183-188 for the single command, 281-283
\* for the first stage, 306-308 for the second.
WantsOut_AnyStage(k) == k.loc.output_redirection = 1 \/ k.loc.append = 1
WantsOut(k) ==
    /\ k.role \in {"single", "stage2"}
    /\ (k.loc.output_redirection = 1 \/ k.loc.append = 1)
WantsIn(k) ==
    /\ k.role \in {"single", "stage1"}
    /\ k.loc.input_redirection = 1

\* The calls of a child in their order, output first; slot is the slot of the
\* path whose open made a helper exit.
Redirect(k, okOut, okIn) ==
    LET o == IF WantsOut(k)
             THEN outputRedirection(k.fds, k.parsed, k.loc.output_file_pos,
                                    k.loc.append, okOut)
             ELSE [failed |-> FALSE, fds |-> k.fds]
        n == IF ~o.failed /\ WantsIn(k)
             THEN inputRedirection(o.fds, k.parsed, k.loc.input_file_pos, okIn)
             ELSE o
    IN  [failed |-> n.failed, fds |-> n.fds,
         slot |-> IF o.failed THEN PathSlot(k.loc.output_file_pos)
                  ELSE IF n.failed THEN PathSlot(k.loc.input_file_pos) ELSE -1]

\* exit(1), lines 216 and 239
RedirFailExit_Success == "exit(0)"
RedirFailExit == "exit(1)"

ChildRedirect(k) ==
    /\ kids[k].st = "redir"
    /\ \E okOut \in IF WantsOut(kids[k]) THEN BOOLEAN ELSE {TRUE} :
         \E okIn \in IF WantsIn(kids[k]) THEN BOOLEAN ELSE {TRUE} :
            LET r == Redirect(kids[k], okOut, okIn)
            IN  kids' = [kids EXCEPT ![k] =
                           IF r.failed
                           THEN [Ended(kids[k], RedirFailExit) EXCEPT
                                    !.failed = r.slot, !.last = r.fds]
                           ELSE [kids[k] EXCEPT !.st = "exec", !.fds = r.fds]]
    /\ UNCHANGED <<pc, nlines, line, toks, command, stdin, args, loc, fds, fds0, npipes, pipe_fd, pid,
                   pid1, pid2, nkids>>

\* The first slot of the argv: lines 190, 285 and 310.
ExecStart(k) == IF k.role = "stage2" THEN k.loc.piped_cmd_pos ELSE 0

\* The argv of a child, as token indices.
ExecArgv(k) == ArgvFrom(k.parsed, ExecStart(k))

\* What the child does when execvp returns: lines 191-193, 286-288, 311-313.
ExecFailExit(role) == IF role = "single" THEN "exit(0)" ELSE "exit(1)"

\* execvp either replaces the program or returns -1. With a null program name
\* the call is undefined: it returns -1 or the child dies of a signal.
ExecOutcomes(k) ==
    IF k.parsed[ExecStart(k)] = NULL
    THEN {ExecFailExit(k.role), "SIGSEGV"}
    ELSE {"run", ExecFailExit(k.role)}

ChildExec(k) ==
    /\ kids[k].st = "exec"
    /\ \E out \in ExecOutcomes(kids[k]) :
          LET kk == [kids[k] EXCEPT !.execd = TRUE, !.argv = ExecArgv(kids[k])]
          IN  kids' = [kids EXCEPT ![k] =
                         IF out = "run"
                         THEN [kk EXCEPT !.st = "run", !.parsed = NoKid.parsed,
                                         !.loc = InitLocals]
                         ELSE Ended(kk, out)]
    /\ UNCHANGED <<pc, nlines, line, toks, command, stdin, args, loc, fds, fds0, npipes, pipe_fd, pid,
                   pid1, pid2, nkids>>

\* The program the child became terminates.
ProgramExit(k) ==
    /\ kids[k].st = "run"
    /\ kids' = [kids EXCEPT ![k] = Ended(kids[k], "program")]
    /\ UNCHANGED <<pc, nlines, line, toks, command, stdin, args, loc, fds, fds0, npipes, pipe_fd, pid,
                   pid1, pid2, nkids>>

\* --------------------------------------------------- specifications
ParentStep ==
    \/ execCmd_scan
    \/ execCmd_fork
    \/ execCmd_forkFail
    \/ execCmd_background
    \/ execCmd_wait
    \/ pipeCommands_pipe
    \/ pipeCommands_pipeFail
    \/ pipeCommands_fork1
    \/ pipeCommands_fork1Fail
    \/ pipeCommands_fork2
    \/ pipeCommands_fork2Fail
    \/ pipeCommands_close
    \/ pipeCommands_wait1
    \/ pipeCommands_wait2

ChildStep(k) ==
    \/ ChildSetup(k)
    \/ ChildRedirect(k)
    \/ ChildExec(k)

\* One line, any shape.
Next ==
    \/ ReadLine(TypedLines(AllLines), 1)
    \/ EndOfInput
    \/ ParentStep
    \/ \E k \in Pids : ChildStep(k)
    \/ \E k \in Pids : ProgramExit(k)

Spec == Init /\ [][Next]_vars

\* A session of up to MaxLines lines of the four shapes.
NextSession ==
    \/ ReadLine(TypedLines(SessionLines), MaxLines)
    \/ EndOfInput
    \/ ParentStep
    \/ \E k \in Pids : ChildStep(k)
    \/ \E k \in Pids : ProgramExit(k)

SpecSession == Init /\ [][NextSession]_vars

\* The scheduler runs the processes that can take a step, the interpreter and
\* each child up to its execvp: while one of them can step, one of them does.
\* Nothing makes a program terminate, and nothing makes the user enter a line.
Fairness == WF_vars(ParentStep \/ \E k \in Pids : ChildStep(k))

\* One line of a command word and a short tail, fairly scheduled.
NextFair ==
    \/ ReadLine(TypedLines(FairLines), 1)
    \/ EndOfInput
    \/ ParentStep
    \/ \E k \in Pids : ChildStep(k)
    \/ \E k \in Pids : ProgramExit(k)

FairSpec == Init /\ [][NextFair]_vars /\ Fairness

\* The same session, fairly scheduled.
FairSession == Init /\ [][NextSession]_vars /\ Fairness

\* Every program a child becomes terminates.
Termination == WF_vars(\E k \in Pids : ProgramExit(k))

\* One line of a command word and a short tail, fairly scheduled, with
\* programs that terminate.
FairTermSpec == Init /\ [][NextFair]_vars /\ Fairness /\ Termination

\* One line typed character by character: blank, long, or of the four shapes.
NextRaw ==
    \/ ReadLine(RawLines, 1)
    \/ EndOfInput
    \/ ParentStep
    \/ \E k \in Pids : ChildStep(k)
    \/ \E k \in Pids : ProgramExit(k)

SpecRaw == Init /\ [][NextRaw]_vars

\* ------------------------------------------------- reading the state
\* The tokens of the line read last: slot i of the array held Tok(i), for
\* i < NTok.
NTok == Len(toks)
Tok(i) == toks[i + 1]
TokSlots == 0..(NTok - 1)
HasTok(x) == \E i \in TokSlots : Tok(i) = x

\* The children forked for the line read last.
KidsOfLine == {k \in Pids : kids[k].st # "none" /\ kids[k].line = nlines}

\* The line read last went to execCmd and its scan is over.
Scanned ==
    pc \in {"fork", "nohang", "wait", "pipe", "fork1", "fork2", "close",
            "wait1", "wait2"}

Range(s) == {s[i] : i \in 1..Len(s)}

\* ------------------------------------------------------------ claims

\* C1: a single command without & returns to the input loop only after the
\* child forked for that very command has terminated and been reaped, also when
\* earlier lines left background children behind.
C1_ForegroundChildReaped ==
    ( /\ pc = "prompt"
      /\ loc.is_pipe = 0
      /\ loc.background = 0
      /\ pid \in KidsOfLine )
    => kids[pid].st = "reaped"

\* C2: back at the prompt after a line with a | token, the interpreter's open
\* descriptors are those it had before the line was read.
C2_NoDescriptorLeft ==
    (pc = "prompt" /\ HasTok("|")) => OpenFds(fds) = fds0

\* C3: a line whose last token is >, >>, < or | is rejected: no child is
\* created for it and no pipe or file is opened for it.
Malformed == NTok > 0 /\ Tok(NTok - 1) \in {">", ">>", "<", "|"}

C3_MalformedCreatesNothing ==
    Malformed => (KidsOfLine = {} /\ OpenFds(fds) = fds0)

\* C4: for a line with an & token, single command or pipeline, the parent
\* never enters a blocking wait, and it is back at the prompt whether or not
\* the children ever terminate.
C4_BackgroundNeverBlocks ==
    /\ [](HasTok("&") => pc \notin {"wait", "wait1", "wait2"})
    /\ ((pc = "execCmd" /\ HasTok("&")) ~> (pc = "prompt"))

\* A background pipeline is back at the prompt while both its programs run.
C4_Witness ==
    /\ pc = "prompt"
    /\ HasTok("&")
    /\ loc.is_pipe = 1
    /\ pid1 \in KidsOfLine
    /\ pid2 \in KidsOfLine
    /\ kids[pid1].st = "run"
    /\ kids[pid2].st = "run"

\* The descriptors, over all processes (0 is the interpreter), that refer to
\* end m of pipe p.
Holders(p, m) ==
    {<<0, f>> : f \in {g \in Fds : fds[g] = PipeEnd(p, m)}}
    \cup UNION { {<<k, f>> : f \in {g \in Fds : kids[k].fds[g] = PipeEnd(p, m)}}
                 : k \in Pids }

\* k1 and k2 are the two stages of one pipeline.
Stages(k1, k2) ==
    /\ kids[k1].role = "stage1"
    /\ kids[k2].role = "stage2"
    /\ kids[k1].pipe = kids[k2].pipe

\* The write end of the pipeline's pipe is held by the first stage's standard
\* output only, the read end by the second stage's standard input only.
Exclusive(k1, k2) ==
    LET p == kids[k1].pipe
    IN  /\ Holders(p, "w") \subseteq {<<k1, STDOUT_FILENO>>}
        /\ Holders(p, "r") \subseteq {<<k2, STDIN_FILENO>>}
        /\ Live(k1) => <<k1, STDOUT_FILENO>> \in Holders(p, "w")
        /\ Live(k2) => <<k2, STDIN_FILENO>> \in Holders(p, "r")

\* The parent has executed the closes of lines 318-319 for k2's pipeline.
ParentClosed(k2) == ~(pc = "close" /\ kids[k2].line = nlines)

\* C5 as stated: once both children are forked and each has reached execvp,
\* stage one's standard output is the only holder of the write end and stage
\* two's standard input the only holder of the read end.
C5_ExclusiveOnceSpawned ==
    \A k1, k2 \in Pids :
        (Stages(k1, k2) /\ kids[k1].execd /\ kids[k2].execd) => Exclusive(k1, k2)

\* C5, amended: the same once the parent has also executed its two closes; and
\* then, under fair scheduling, after stage one has terminated a running stage
\* two finds no writer left on the pipe, so that its read returns end-of-stream.
C5_ExclusiveOnceClosed ==
    /\ [](\A k1, k2 \in Pids :
            (Stages(k1, k2) /\ kids[k1].execd /\ kids[k2].execd /\ ParentClosed(k2))
            => Exclusive(k1, k2))
    /\ <>[](\A k1, k2 \in Pids :
              (Stages(k1, k2) /\ ~Live(k1) /\ kids[k2].st = "run")
              => Holders(kids[k2].pipe, "w") = {})

\* Stage one has terminated, stage two runs and no writer is left.
C5_Witness ==
    \E k1, k2 \in Pids :
        /\ Stages(k1, k2)
        /\ kids[k1].execd
        /\ kids[k1].exit = "program"
        /\ kids[k2].st = "run"
        /\ Holders(kids[k2].pipe, "w") = {}
        /\ Holders(kids[k2].pipe, "r") = {<<k2, STDIN_FILENO>>}

\* C6: a foreground pipeline whose two forks succeeded is back at the prompt
\* only with both children terminated and reaped.
C6_PipelineWaitsForBoth ==
    ( /\ pc = "prompt"
      /\ loc.is_pipe = 1
      /\ loc.background = 0
      /\ pid1 \in KidsOfLine
      /\ pid2 \in KidsOfLine )
    => (kids[pid1].st = "reaped" /\ kids[pid2].st = "reaped")

\* Back at the prompt after a foreground pipeline, while a child of an earlier
\* line is still to be reaped.
C6_Witness ==
    /\ pc = "prompt"
    /\ loc.is_pipe = 1
    /\ loc.background = 0
    /\ pid1 \in KidsOfLine
    /\ pid2 \in KidsOfLine
    /\ kids[pid1].st = "reaped"
    /\ kids[pid2].st = "reaped"
    /\ \E k \in Pids : kids[k].st = "zombie"

\* C7: a pipeline child that is about to call execvp, or has, no longer holds
\* the two descriptors pipe() returned; stage one's standard output is the
\* write end and its standard input a file exactly when the line has a <;
\* stage two's standard input is the read end and its standard output a file
\* exactly when the line has a > or >>.
Rebound(k) == kids[k].st \in {"exec", "run"}

C7_PipelineRebinding ==
    \A k \in KidsOfLine :
        (Rebound(k) /\ kids[k].role \in {"stage1", "stage2"}) =>
        LET t == kids[k].fds
            p == kids[k].pipe
        IN  /\ t[kids[k].pipe_fd[1]].kind = "closed"
            /\ t[kids[k].pipe_fd[2]].kind = "closed"
            /\ kids[k].role = "stage1" =>
                 /\ t[STDOUT_FILENO] = PipeEnd(p, "w")
                 /\ IF HasTok("<") THEN t[STDIN_FILENO].kind = "file"
                                   ELSE t[STDIN_FILENO] = Tty
            /\ kids[k].role = "stage2" =>
                 /\ t[STDIN_FILENO] = PipeEnd(p, "r")
                 /\ IF HasTok(">") \/ HasTok(">>")
                    THEN t[STDOUT_FILENO].kind = "file"
                    ELSE t[STDOUT_FILENO] = Tty

\* Both stages of a pipeline with a < and a > run their programs.
C7_Witness ==
    /\ HasTok("<")
    /\ HasTok(">")
    /\ pid1 \in KidsOfLine
    /\ pid2 \in KidsOfLine
    /\ kids[pid1].st = "run"
    /\ kids[pid2].st = "run"
    /\ kids[pid1].argv # <<>>
    /\ kids[pid2].argv # <<>>
    /\ kids[pid1].fds[STDIN_FILENO].kind = "file"
    /\ kids[pid2].fds[STDOUT_FILENO].kind = "file"

\* The slots of the tokens that are neither an operator nor the token after a
\* >, >> or <, in order.
Unconsumed(i) ==
    /\ Tok(i) \notin Operators
    /\ i > 0 => Tok(i - 1) \notin {">", ">>", "<"}
ExpectedArgv == SelectSeq([i \in 1..NTok |-> i - 1], Unconsumed)

\* C8: without a | token, the argv handed to execvp is the sequence of the
\* tokens that are neither operators nor the argument of a redirection; with no
\* operator at all it is the whole line and nothing else is set.
C8_ArgvIsUnconsumedTokens ==
    ~HasTok("|") =>
    \A k \in KidsOfLine :
        kids[k].execd =>
            /\ kids[k].argv = ExpectedArgv
            /\ (\A i \in TokSlots : Tok(i) \notin Operators) =>
                  /\ kids[k].argv = [i \in 1..NTok |-> i - 1]
                  /\ loc = InitLocals

\* The one output operator of the line, when its next token is a path.
OutSlots == {i \in TokSlots : Tok(i) \in {">", ">>"}}
OutSlot == CHOOSE i \in OutSlots : TRUE
OneOutWithPath ==
    /\ Cardinality(OutSlots) = 1
    /\ OutSlot + 1 < NTok
    /\ Tok(OutSlot + 1) \notin Operators

\* C9: with exactly one > or >> followed by a path token, that token is in no
\* argv, and the file bound to standard output is that path, opened for append
\* after >> and truncated after >.
C9_OutputTarget ==
    OneOutWithPath =>
    \A k \in KidsOfLine :
        /\ kids[k].execd => (OutSlot + 1) \notin Range(kids[k].argv)
        /\ (Rebound(k) /\ kids[k].role \in {"single", "stage2"}) =>
              kids[k].fds[STDOUT_FILENO] =
                 File(OutSlot + 1,
                      IF Tok(OutSlot) = ">>" THEN "append" ELSE "trunc",
                      Tok(OutSlot + 1))
        /\ kids[k].role = "stage1" => kids[k].fds[STDOUT_FILENO].kind # "file"

\* A command runs with its standard output appended to the path after its >>.
C9_Witness ==
    /\ OneOutWithPath
    /\ Tok(OutSlot) = ">>"
    /\ pid \in KidsOfLine
    /\ kids[pid].st = "run"
    /\ kids[pid].argv # <<>>
    /\ kids[pid].fds[STDOUT_FILENO].mode = "append"

\* C10: when the last token is &, background is set and no argv contains the &.
LastIsAmp == NTok > 0 /\ Tok(NTok - 1) = "&"

C10_TrailingAmp ==
    LastIsAmp =>
        /\ Scanned => loc.background = 1
        /\ \A k \in KidsOfLine :
              /\ kids[k].st \in {"setup", "redir", "exec"} => kids[k].loc.background = 1
              /\ kids[k].execd => \A i \in Range(kids[k].argv) : Tok(i) # "&"

\* Both programs of a background pipeline run, neither with the & in its argv.
C10_Witness ==
    /\ LastIsAmp
    /\ loc.background = 1
    /\ pid1 \in KidsOfLine
    /\ pid2 \in KidsOfLine
    /\ kids[pid1].st = "run"
    /\ kids[pid2].st = "run"
    /\ kids[pid1].argv # <<>>
    /\ kids[pid2].argv # <<>>

\* C11: for a line with exactly one | token the scan chooses the pipeline
\* shape, and each of the two children hands execvp a non-empty argv, also
\* when the | is the first or the last token.
OnePipeTok == Cardinality({i \in TokSlots : Tok(i) = "|"}) = 1

C11_StagesHavePrograms ==
    OnePipeTok =>
        /\ Scanned => loc.is_pipe = 1
        /\ \A k \in KidsOfLine :
              kids[k].execd =>
                  /\ kids[k].role \in {"stage1", "stage2"}
                  /\ kids[k].argv # <<>>

\* C12: a child whose execvp returned (the single command's or a stage's) has
\* terminated with a status other than success, and the interpreter goes on.
ExecFailed(k) ==
    /\ kids[k].execd
    /\ kids[k].st \in {"zombie", "reaped"}
    /\ kids[k].exit # "program"

C12_ExecFailureStatus ==
    \A k \in Pids :
        ExecFailed(k) => (kids[k].exit # "exit(0)" /\ pc # "exited")

\* C13: a child in which the open of a redirection file failed has terminated
\* with a non-zero status and never called execvp, neither of its standard
\* streams was bound to that file, and the interpreter goes on.
OpenFailed(k) == kids[k].failed >= 0

C13_OpenFailureEndsChild ==
    \A k \in Pids :
        OpenFailed(k) =>
            /\ kids[k].st \in {"zombie", "reaped"}
            /\ kids[k].exit = "exit(1)"
            /\ ~kids[k].execd
            /\ kids[k].argv = <<>>
            /\ \A f \in {STDIN_FILENO, STDOUT_FILENO} :
                  ~(kids[k].last[f].kind = "file" /\ kids[k].last[f].id = kids[k].failed)
            /\ pc # "exited"

\* A single command whose output file opened and whose input file, a path of
\* the line, did not.
C13_Witness ==
    \E k \in KidsOfLine :
        /\ OpenFailed(k)
        /\ kids[k].role = "single"
        /\ kids[k].failed < NTok
        /\ Tok(kids[k].failed - 1) = "<"
        /\ kids[k].last[STDOUT_FILENO].kind = "file"
        /\ kids[k].last[STDIN_FILENO] = Tty

\* C14: when pipeCommands has returned because a fork failed, the parent holds
\* neither end of the pipe it created there, and no child it created for the
\* line is still running.
PipelineAbandoned ==
    /\ pc = "prompt"
    /\ loc.is_pipe = 1
    /\ (pid1 = -1 \/ pid2 = -1)

C14_FailureLeavesNothing ==
    PipelineAbandoned =>
        /\ fds[pipe_fd[1]].kind = "closed"
        /\ fds[pipe_fd[2]].kind = "closed"
        /\ \A k \in KidsOfLine : ~Live(k)

\* C15: every child that has terminated is eventually reaped by the
\* interpreter, as long as the interpreter lives, whatever lines were entered,
\* background ones included.
C15_ZombiesReaped ==
    \A k \in Pids :
        (kids[k].st = "zombie") ~> (kids[k].st = "reaped" \/ pc \in {"done", "exited"})

\* C16: with programs that terminate, and whatever fails in a child (an open,
\* execvp) or in the parent (pipe, fork), the interpreter is not terminated by
\* a line that went to execCmd and is back at the prompt after it.
C16_PromptRegained ==
    /\ [](pc # "exited")
    /\ ((pc = "execCmd") ~> (pc = "prompt"))

\* Back at the prompt after a foreground pipeline whose second stage could not
\* open its output file and whose first stage could not be executed.
C16_Witness ==
    /\ pc = "prompt"
    /\ loc.is_pipe = 1
    /\ loc.background = 0
    /\ pid1 \in KidsOfLine
    /\ pid2 \in KidsOfLine
    /\ kids[pid1].st = "reaped"
    /\ kids[pid1].execd
    /\ kids[pid1].exit = "exit(1)"
    /\ kids[pid2].st = "reaped"
    /\ OpenFailed(pid2)

\* C17: a line that is empty or made of spaces and tabs only yields no token;
\* it is not given to execCmd and no process is created for it.
\* The line read is blank: strtok having split it on the spaces, each of its
\* words is a run of tabs.
TabWords == {Str(b) : b \in Concats({<<TAB>>}, MaxBlank) \ {<<>>}}
Blank == \A i \in 1..Len(line) : line[i] \in TabWords

C17_BlankLineDoesNothing ==
    (nlines > 0 /\ Blank) =>
        /\ toks = <<>>
        /\ pc \in {"prompt", "done"}
        /\ KidsOfLine = {}

\* C18: the tokens are the first MaxTokens words of the line at most, in their
\* order, and the array has its NULL right after them; every slot a child
\* reads (the path after a redirection operator, the piped command, its argv)
\* lies in the array and was written for this line.
FirstWords == SubSeq(line, 1, IF Len(line) < MaxTokens THEN Len(line) ELSE MaxTokens)

Written(a, i) == i \in 0..(ArgsSize - 1) /\ a[i] # UNINIT

C18_TokenBound ==
    nlines > 0 =>
        /\ toks = FirstWords
        /\ NTok <= MaxTokens
        /\ args[NTok] = NULL
        /\ \A i \in 0..(ArgsSize - 1) : i > NTok => args[i] = UNINIT
        /\ \A k \in KidsOfLine :
              /\ kids[k].st \in {"setup", "redir", "exec"} =>
                    /\ WantsOut(kids[k]) =>
                          Written(kids[k].parsed, PathSlot(kids[k].loc.output_file_pos))
                    /\ WantsIn(kids[k]) =>
                          Written(kids[k].parsed, PathSlot(kids[k].loc.input_file_pos))
                    /\ Written(kids[k].parsed, ExecStart(kids[k]))
              /\ \A i \in Range(kids[k].argv) : i < NTok

\* The tenth token of a longer line is a |: the second stage reads its program
\* name from the slot of the terminating NULL.
C18_Witness ==
    /\ Len(line) > MaxTokens
    /\ NTok = MaxTokens
    /\ Tok(MaxTokens - 1) = "|"
    /\ loc.piped_cmd_pos = MaxTokens
    /\ pid1 \in KidsOfLine
    /\ pid2 \in KidsOfLine
    /\ kids[pid1].st = "run"
    /\ kids[pid2].execd

\* The last > or >> of the line, when there are several and a path follows it.
LastOutSlot == CHOOSE i \in OutSlots : \A j \in OutSlots : j <= i
SeveralOutsWithPath ==
    /\ Cardinality(OutSlots) > 1
    /\ LastOutSlot + 1 < NTok
    /\ Tok(LastOutSlot + 1) \notin Operators

\* C19: with more than one > or >> on the line, the file bound to standard
\* output is the path after the last of them, truncated when the last is >,
\* opened for append when it is >>.
C19_LastOutputWins ==
    SeveralOutsWithPath =>
    \A k \in KidsOfLine :
        (Rebound(k) /\ kids[k].role \in {"single", "stage2"}) =>
            kids[k].fds[STDOUT_FILENO] =
                File(LastOutSlot + 1,
                     IF Tok(LastOutSlot) = ">>" THEN "append" ELSE "trunc",
                     Tok(LastOutSlot + 1))

\* C20: one line typed has at most one command built and run: what fgets
\* reads after the first read of that line yields no token and no process.
C20_OnePlanPerLine ==
    nlines > 1 =>
        /\ toks = <<>>
        /\ pc \in {"prompt", "done"}
        /\ KidsOfLine = {}

====
